---- MODULE Spec2Model ----
(***************************************************************************)
(* Model of h1bomb/intensity-segments: the IntensitySegments class of      *)
(* src/src/IntensitySegments.ts (the store, add, set, applyChanges and the *)
(* queries) and of its cached variant src/unnamed/part_000 (binarySearch,  *)
(* the intensity cache).                                                    *)
(*                                                                         *)
(* A Segment is the pair <<point, intensity>>; the store is the sequence   *)
(* `segments`.  Points and intensities are modelled as integers, on which  *)
(* the arithmetic of JavaScript numbers is exact.  An argument of a call   *)
(* is a record [type, fin, val]: type is what `typeof` answers, fin is     *)
(* Number.isFinite, val the value of a finite number (for a non-finite     *)
(* number: 1 Infinity, -1 -Infinity, 0 NaN).                               *)
(***************************************************************************)
EXTENDS Integers, Sequences, FiniteSets, TLC

VARIABLES
    segments,        \* this.segments
    intensityCache,  \* this.intensityCache (cached variant): the entries
                     \* [key, value, timestamp] in insertion order
    cacheConfig,     \* this.cacheConfig (cached variant): [maxSize, ttl]
    now,             \* Date.now()
    other,           \* this.segments of a second, independent instance
    prev,            \* history: this.segments when the recorded call was made
    prevCache,       \* history: this.intensityCache when it was made
    last             \* history: the recorded call, its arguments and outcome

vars == <<segments, intensityCache, cacheConfig, now, other, prev, prevCache, last>>
cacheVars == <<intensityCache, cacheConfig, now, prevCache>>

\* Bounds of the model.
MaxPoint == 3
MaxAmount == 1
MaxIntensity == 2

Points == 0..MaxPoint
\* The times at which the claims observe the function: every point, one
\* time before them all and one after.
QueryTimes == (0 - 1)..(MaxPoint + 1)
Amounts == (0 - MaxAmount)..MaxAmount

Num(n) == [type |-> "number", fin |-> TRUE, val |-> n]
Infinity == [type |-> "number", fin |-> FALSE, val |-> 1]
NaN == [type |-> "number", fin |-> FALSE, val |-> 0]
NotANumber == [type |-> "string", fin |-> FALSE, val |-> 0]

\* The numbers a caller passes as points and amounts, and arguments that are
\* not finite numbers.
PointArgs == {Num(n) : n \in Points}
AmountArgs == {Num(n) : n \in Amounts}
PositiveAmountArgs == {Num(n) : n \in 1..MaxAmount}
BadArgs == {Infinity, NaN, NotANumber}

(***************************************************************************)
(* Validation.                                                             *)
(***************************************************************************)
validateTimeRange(from, to) ==
    IF from.type # "number" \/ to.type # "number" THEN "TypeError"
    ELSE IF ~from.fin \/ ~to.fin THEN "RangeError"
    ELSE IF from.val >= to.val THEN "RangeError"
    ELSE "ok"

validateIntensity(intensity) ==
    IF intensity.type # "number" THEN "TypeError"
    ELSE IF ~intensity.fin THEN "RangeError"
    ELSE "ok"

\* validateTimeRange, then validateIntensity: the first throw ends the call.
validate(from, to, amount) ==
    IF validateTimeRange(from, to) # "ok" THEN validateTimeRange(from, to)
    ELSE validateIntensity(amount)

(***************************************************************************)
(* The changes map (a JavaScript Map from point to intensity change).      *)
(***************************************************************************)
EmptyMap == [p \in {} |-> 0]

\* changes.get(point) || 0
getOr0(changes, point) ==
    IF point \in DOMAIN changes THEN changes[point] ELSE 0

\* changes.set(point, value)
mapSet(changes, point, value) ==
    [p \in (DOMAIN changes) \cup {point} |->
        IF p = point THEN value ELSE changes[p]]

\* Mutant of accumulate: the contribution overwrites the entry instead of
\* being summed into it.
accumulateOverwrite(changes, point, delta) ==
    mapSet(changes, point, delta)

\* changes.set(point, (changes.get(point) || 0) + delta)
accumulate(changes, point, delta) ==
    mapSet(changes, point, getOr0(changes, point) + delta)

\* The fold of a sequence of <<point, delta>> entries into a changes map.
RECURSIVE accumulateAll(_, _, _)
accumulateAll(changes, entries, i) ==
    IF i > Len(entries) THEN changes
    ELSE accumulateAll(accumulate(changes, entries[i][1], entries[i][2]),
                       entries, i + 1)

(***************************************************************************)
(* applyChanges: sort the points, accumulate, drop the unnecessary zeros.  *)
(***************************************************************************)
Min(S) == CHOOSE x \in S : \A y \in S : x <= y
Max(S) == CHOOSE x \in S : \A y \in S : x >= y

\* Mutant of sortPoints: the comparator is (a, b) => b - a.
RECURSIVE sortPointsDescending(_)
sortPointsDescending(S) ==
    IF S = {} THEN << >>
    ELSE <<Max(S)>> \o sortPointsDescending(S \ {Max(S)})

\* Array.from(changes.keys()).sort((a, b) => a - b)
RECURSIVE sortPoints(_)
sortPoints(S) ==
    IF S = {} THEN << >> ELSE <<Min(S)>> \o sortPoints(S \ {Min(S)})

\* Mutant of cumulate: newSegments[i] = [point, changes.get(point)], the
\* change at the point instead of the running sum.
RECURSIVE cumulateNoSum(_, _, _, _)
cumulateNoSum(changes, points, i, currentIntensity) ==
    IF i > Len(points) THEN << >>
    ELSE <<<<points[i], getOr0(changes, points[i])>>>>
         \o cumulateNoSum(changes, points, i + 1, currentIntensity)

\* The first loop: newSegments[i] = [point, currentIntensity].
RECURSIVE cumulate(_, _, _, _)
cumulate(changes, points, i, currentIntensity) ==
    IF i > Len(points) THEN << >>
    ELSE LET c == currentIntensity + getOr0(changes, points[i])
         IN  <<<<points[i], c>>>> \o cumulate(changes, points, i + 1, c)

\* Mutant of keepSegment: a zero segment is pushed only before a nonzero one.
keepNonZeroSegment(intensity, nextIntensity, foundNonZero) ==
    intensity # 0 \/ nextIntensity # 0

\* The condition under which the second loop pushes newSegments[i], once the
\* leading zeros are skipped.
keepSegment(intensity, nextIntensity, foundNonZero) ==
    intensity # 0 \/ nextIntensity # 0 \/ foundNonZero

\* Mutant of removeZeros: the second loop pushes every segment.
pushEverySegment(newSegments, i, foundNonZero) ==
    SubSeq(newSegments, i, Len(newSegments))

\* The second loop: finalSegments, built from newSegments[i..].
RECURSIVE removeZeros(_, _, _)
removeZeros(newSegments, i, foundNonZero) ==
    IF i > Len(newSegments) THEN << >>
    ELSE LET intensity == newSegments[i][2]
             nextIntensity ==
                 IF i < Len(newSegments) THEN newSegments[i + 1][2] ELSE 0
             found == foundNonZero \/ intensity # 0
         IN  IF ~foundNonZero /\ intensity = 0
             THEN removeZeros(newSegments, i + 1, foundNonZero)
             ELSE IF keepSegment(intensity, nextIntensity, found)
             THEN <<newSegments[i]>> \o removeZeros(newSegments, i + 1, found)
             ELSE removeZeros(newSegments, i + 1, found)

\* Mutant of popTrailingZeros: the while loop is missing.
keepTrailingZeros(finalSegments) == finalSegments

\* The while loop: pop the last segment while the last two are both zero.
RECURSIVE popTrailingZeros(_)
popTrailingZeros(finalSegments) ==
    LET n == Len(finalSegments)
    IN  IF n > 0 /\ finalSegments[n][2] = 0
           /\ n >= 2 /\ finalSegments[n - 1][2] = 0
        THEN popTrailingZeros(SubSeq(finalSegments, 1, n - 1))
        ELSE finalSegments

applyChanges(changes) ==
    LET points == sortPoints(DOMAIN changes)
        newSegments == cumulate(changes, points, 1, 0)
    IN  popTrailingZeros(removeZeros(newSegments, 1, FALSE))

(***************************************************************************)
(* add                                                                     *)
(***************************************************************************)
\* Mutant of existingChanges: the opposite change at the next segment's
\* start is not pushed.
RECURSIVE existingChangesOpen(_, _)
existingChangesOpen(segs, i) ==
    IF i > Len(segs) THEN << >>
    ELSE <<segs[i]>> \o existingChangesOpen(segs, i + 1)

\* The points/intensities arrays filled from the existing segments: each
\* segment's intensity at its start and, unless it is the last one, the
\* opposite at the next segment's start.
RECURSIVE existingChanges(_, _)
existingChanges(segs, i) ==
    IF i > Len(segs) THEN << >>
    ELSE <<segs[i]>>
         \o (IF i < Len(segs) THEN <<<<segs[i + 1][1], 0 - segs[i][2]>>>>
             ELSE << >>)
         \o existingChanges(segs, i + 1)

\* The store add(from, to, amount) leaves, for arguments that passed validation.
addSegments(segs, from, to, amount) ==
    LET entries == existingChanges(segs, 1)
                   \o <<<<from, amount>>, <<to, 0 - amount>>>>
    IN  applyChanges(accumulateAll(EmptyMap, entries, 1))

(***************************************************************************)
(* set                                                                     *)
(***************************************************************************)
\* The first loop: the segments before `from`, up to the first one that is not.
RECURSIVE segmentsBefore(_, _, _)
segmentsBefore(segs, i, from) ==
    IF i > Len(segs) \/ ~(segs[i][1] < from) THEN << >>
    ELSE <<segs[i]>> \o segmentsBefore(segs, i + 1, from)

\* Mutant of afterIntensity: the scan tests `< to` instead of `<= to`.
RECURSIVE afterIntensityStrict(_, _, _)
afterIntensityStrict(segs, i, to) ==
    IF i < 1 THEN 0
    ELSE IF segs[i][1] < to THEN segs[i][2]
    ELSE afterIntensityStrict(segs, i - 1, to)

\* The backward scan for the intensity that continues after `to`.
RECURSIVE afterIntensity(_, _, _)
afterIntensity(segs, i, to) ==
    IF i < 1 THEN 0
    ELSE IF segs[i][1] <= to THEN segs[i][2]
    ELSE afterIntensity(segs, i - 1, to)

\* The last loop over this.segments: the segments after `to`.
segmentsAfter(segs, to) == SelectSeq(segs, LAMBDA s : s[1] > to)

\* Mutant of setNewSegments: the segments inside the range are pushed too.
setNewSegmentsKeepInside(segs, from, to, amount) ==
    segmentsBefore(segs, 1, to)
    \o <<<<from, amount>>>>
    \o <<<<to, afterIntensity(segs, Len(segs), to)>>>>
    \o segmentsAfter(segs, to)

\* Mutant of setNewSegments: the end point of the range is not pushed.
setNewSegmentsNoEnd(segs, from, to, amount) ==
    segmentsBefore(segs, 1, from)
    \o <<<<from, amount>>>>
    \o segmentsAfter(segs, to)

\* newSegments: the working sequence set assembles.
setNewSegments(segs, from, to, amount) ==
    segmentsBefore(segs, 1, from)
    \o <<<<from, amount>>>>
    \o <<<<to, afterIntensity(segs, Len(segs), to)>>>>
    \o segmentsAfter(segs, to)

\* The last entry of newSegments is nonzero: set emits a closing change at
\* lastPoint + 1.
setEmitsEndPoint(newSegments) ==
    newSegments[Len(newSegments)][2] # 0

\* The loop of set that turns newSegments into the changes map.
RECURSIVE setChanges(_, _, _)
setChanges(changes, newSegments, i) ==
    IF i > Len(newSegments) THEN changes
    ELSE LET start == newSegments[i][1]
             intensity == newSegments[i][2]
             c1 == accumulate(changes, start, intensity)
             c2 == IF i < Len(newSegments)
                   THEN accumulate(c1, newSegments[i + 1][1], 0 - intensity)
                   ELSE IF intensity # 0
                   THEN mapSet(c1,
                          Max({newSegments[k][1] : k \in 1..Len(newSegments)}) + 1,
                          0 - intensity)
                   ELSE c1
         IN  setChanges(c2, newSegments, i + 1)

\* The store set(from, to, amount) leaves, for arguments that passed validation.
setSegments(segs, from, to, amount) ==
    applyChanges(setChanges(EmptyMap, setNewSegments(segs, from, to, amount), 1))

(***************************************************************************)
(* Queries.  Indices are the code's (0-based): this.segments[i] is         *)
(* segs[i + 1].                                                            *)
(***************************************************************************)
\* Mutant of searchIntensity: after the loop the segment at `left` is read
\* instead of the one at `right`.
RECURSIVE searchIntensityLeft(_, _, _, _)
searchIntensityLeft(segs, time, left, right) ==
    IF left <= right
    THEN LET mid == (left + right) \div 2
             point == segs[mid + 1][1]
         IN  IF point = time THEN segs[mid + 1][2]
             ELSE IF point < time
             THEN searchIntensityLeft(segs, time, mid + 1, right)
             ELSE searchIntensityLeft(segs, time, left, mid - 1)
    ELSE IF left < Len(segs) THEN segs[left + 1][2] ELSE 0

\* getIntensityAt of src/src/IntensitySegments.ts: the binary search loop
\* from the bounds left and right, and the return after it.
RECURSIVE searchIntensity(_, _, _, _)
searchIntensity(segs, time, left, right) ==
    IF left <= right
    THEN LET mid == (left + right) \div 2
             point == segs[mid + 1][1]
         IN  IF point = time THEN segs[mid + 1][2]
             ELSE IF point < time
             THEN searchIntensity(segs, time, mid + 1, right)
             ELSE searchIntensity(segs, time, left, mid - 1)
    ELSE IF right >= 0 THEN segs[right + 1][2] ELSE 0

getIntensityAt(segs, time) ==
    IF Len(segs) = 0 THEN 0
    ELSE searchIntensity(segs, time, 0, Len(segs) - 1)

\* binarySearch of the cached variant: the index of the segment containing
\* `time`, -1 if there is none.
RECURSIVE searchIndex(_, _, _, _)
searchIndex(segs, time, left, right) ==
    IF left <= right
    THEN LET mid == (left + right) \div 2
             point == segs[mid + 1][1]
         IN  IF point = time THEN mid
             ELSE IF point < time
             THEN IF mid = Len(segs) - 1 \/ segs[mid + 2][1] > time
                  THEN mid
                  ELSE searchIndex(segs, time, mid + 1, right)
             ELSE searchIndex(segs, time, left, mid - 1)
    ELSE right

binarySearch(segs, time) == searchIndex(segs, time, 0, Len(segs) - 1)

\* The uncached part of getIntensityAt in the cached variant.
lookupIntensity(segs, time) ==
    LET index == binarySearch(segs, time)
    IN  IF index >= 0 THEN segs[index + 1][2] ELSE 0

(***************************************************************************)
(* The instance of src/src/IntensitySegments.ts as a state machine.        *)
(*                                                                         *)
(* The history variables prev and last record one call at a time: a call   *)
(* is made when no call is on record, and Forget drops the record.  They   *)
(* are not read by the program, so the stores reached are those of any     *)
(* sequence of calls.                                                      *)
(***************************************************************************)
\* The model keeps every stored intensity within the bound.
InBounds(segs) ==
    \A i \in 1..Len(segs) :
        segs[i][2] >= 0 - MaxIntensity /\ segs[i][2] <= MaxIntensity

\* The arguments of an add or a set that are to be rejected: from >= to, a
\* non-finite from, to or amount, or an argument that is not a number.
InvalidArguments(from, to, amount) ==
    \/ from.type # "number" \/ to.type # "number" \/ amount.type # "number"
    \/ ~from.fin \/ ~to.fin \/ ~amount.fin
    \/ from.val >= to.val

\* What getSegmentAt returns: null, or the SegmentRange {start, end,
\* intensity} with `end` a number argument (Infinity after the last segment).
NoSegment == [found |-> FALSE, start |-> 0, end |-> Num(0), intensity |-> 0]
SegmentRange(start, end, intensity) ==
    [found |-> TRUE, start |-> start, end |-> end, intensity |-> intensity]

\* A call on record: result is "ok" or the error thrown, value what a query
\* returned, segment what getSegmentAt returned, hit whether getIntensityAt
\* answered from the cache, earlier the time of the getIntensityAt made just
\* before it when follow is "afterHit", list the array and text the string a
\* query returned, cause what made the arguments of an add or a set invalid, follow how the call relates to the call made just before it
\* ("" when that call is not on record), invalid whether its arguments were
\* to be rejected.
Call(op, from, to, amount, result, value) ==
    [op |-> op, from |-> from, to |-> to, amount |-> amount,
     result |-> result, value |-> value, follow |-> "", invalid |-> FALSE,
     segment |-> NoSegment, hit |-> FALSE, earlier |-> Num(0),
     list |-> << >>, text |-> "", cause |-> ""]

\* What is wrong with the arguments of a call: "range" when all are numbers
\* and one is not finite or from >= to, "type" when one is not a number and
\* nothing else is wrong, "mixed" when both kinds occur, "" when nothing is.
NonNumber(a) == a.type # "number"
NonFinite(a) == a.type = "number" /\ ~a.fin
RejectionCause(from, to, amount) ==
    LET type == NonNumber(from) \/ NonNumber(to) \/ NonNumber(amount)
        range == \/ NonFinite(from) \/ NonFinite(to) \/ NonFinite(amount)
                 \/ /\ from.type = "number" /\ from.fin
                    /\ to.type = "number" /\ to.fin
                    /\ from.val >= to.val
    IN  IF type /\ range THEN "mixed"
        ELSE IF type THEN "type"
        ELSE IF range THEN "range"
        ELSE ""

\* The record of an add or a set: the arguments of a rejected call are not
\* kept, only that they were invalid and in which way.
Mutation(op, from, to, amount, result) ==
    IF result = "ok"
    THEN [Call(op, from, to, amount, result, 0) EXCEPT
              !.invalid = InvalidArguments(from, to, amount)]
    ELSE [Call(op, Num(0), Num(0), Num(0), result, 0) EXCEPT
              !.invalid = InvalidArguments(from, to, amount),
              !.cause = RejectionCause(from, to, amount)]

NoCall == Call("none", Num(0), Num(0), Num(0), "ok", 0)

Init ==
    /\ segments = << >>
    /\ intensityCache = << >>
    /\ cacheConfig = [maxSize |-> 1, ttl |-> 0]
    /\ now = 0
    /\ other = << >>
    /\ prev = << >>
    /\ prevCache = << >>
    /\ last = NoCall

\* add(from, to, amount): a failed validation throws before anything is
\* touched, otherwise the store is replaced by the recomputed segments.
add(from, to, amount) ==
    LET result == validate(from, to, amount)
    IN  /\ IF result = "ok"
           THEN /\ segments' = addSegments(segments, from.val, to.val, amount.val)
                /\ InBounds(segments')
           ELSE segments' = segments
        /\ prev' = segments
        /\ last' = Mutation("add", from, to, amount, result)
        /\ UNCHANGED <<other, cacheVars>>

\* set(from, to, amount)
set(from, to, amount) ==
    LET result == validate(from, to, amount)
    IN  /\ IF result = "ok"
           THEN /\ segments' = setSegments(segments, from.val, to.val, amount.val)
                /\ InBounds(segments')
           ELSE segments' = segments
        /\ prev' = segments
        /\ last' = Mutation("set", from, to, amount, result)
        /\ UNCHANGED <<other, cacheVars>>

\* clear()
clear ==
    /\ segments' = << >>
    /\ prev' = segments
    /\ last' = Call("clear", Num(0), Num(0), Num(0), "ok", 0)
    /\ UNCHANGED <<other, cacheVars>>

\* add(from, to, -amount) right after the recorded add(from, to, amount);
\* prev stays the store before the two calls.
addInverse ==
    /\ last.op = "add" /\ last.result = "ok" /\ last.follow = ""
    /\ segments' = addSegments(segments, last.from.val, last.to.val,
                               0 - last.amount.val)
    /\ InBounds(segments')
    /\ last' = [last EXCEPT !.follow = "inverse"]
    /\ UNCHANGED <<prev, other, cacheVars>>

\* set(from, to, amount) right after the recorded set(from, to, amount);
\* prev becomes the store between the two calls.
setAgain ==
    /\ last.op = "set" /\ last.result = "ok" /\ last.follow = ""
    /\ segments' = setSegments(segments, last.from.val, last.to.val,
                               last.amount.val)
    /\ InBounds(segments')
    /\ prev' = segments
    /\ last' = [last EXCEPT !.follow = "again"]
    /\ UNCHANGED <<other, cacheVars>>

\* The record of the last call is dropped.
Forget ==
    /\ last # NoCall
    /\ last' = NoCall
    /\ prev' = << >>
    /\ prevCache' = << >>
    /\ UNCHANGED <<segments, intensityCache, cacheConfig, now, other>>

Next ==
    \/ /\ last = NoCall
       /\ \E from \in PointArgs \cup BadArgs, to \in PointArgs \cup BadArgs,
             amount \in AmountArgs \cup BadArgs :
              add(from, to, amount)
    \/ /\ last = NoCall
       /\ \E from \in PointArgs \cup BadArgs, to \in PointArgs \cup BadArgs,
             amount \in AmountArgs \cup BadArgs :
              set(from, to, amount)
    \/ /\ last = NoCall
       /\ clear
    \/ addInverse
    \/ setAgain
    \/ Forget

Spec == Init /\ [][Next]_vars

(***************************************************************************)
(* The queries on any store with strictly increasing points.               *)
(***************************************************************************)
Intensities == (0 - MaxIntensity)..MaxIntensity

\* The store with the points of DOMAIN f in ascending order, f[p] at point p.
storeOf(f) ==
    LET points == sortPoints(DOMAIN f)
    IN  [i \in 1..Len(points) |-> <<points[i], f[points[i]]>>]

\* Every store whose points are strictly increasing, over the model's points
\* and intensities.
AllStores ==
    {storeOf(f) : f \in UNION {[P -> Intensities] : P \in SUBSET Points}}

InitQuery ==
    /\ segments \in AllStores
    /\ intensityCache = << >>
    /\ cacheConfig = [maxSize |-> 1, ttl |-> 0]
    /\ now = 0
    /\ other = << >>
    /\ prev = << >>
    /\ prevCache = << >>
    /\ last = NoCall

\* getIntensityAt(time) of src/src/IntensitySegments.ts.
getIntensityAtCall(time) ==
    /\ last' = IF time.type # "number" \/ ~time.fin
               THEN Call("getIntensityAt", time, time, Num(0), "TypeError", 0)
               ELSE Call("getIntensityAt", time, time, Num(0), "ok",
                         getIntensityAt(segments, time.val))
    /\ prev' = segments
    /\ UNCHANGED <<segments, other, cacheVars>>

\* binarySearch(time) of the cached variant, as getIntensityAt and
\* getSegmentAt call it: `time` has passed validation.
binarySearchCall(time) ==
    /\ last' = Call("binarySearch", Num(time), Num(time), Num(0), "ok",
                    binarySearch(segments, time))
    /\ prev' = segments
    /\ UNCHANGED <<segments, other, cacheVars>>

NextQuery ==
    \/ /\ last = NoCall
       /\ \E time \in {Num(t) : t \in QueryTimes} \cup BadArgs :
              getIntensityAtCall(time)
    \/ /\ last = NoCall
       /\ \E time \in QueryTimes : binarySearchCall(time)
    \/ Forget

SpecQuery == InitQuery /\ [][NextQuery]_vars

(***************************************************************************)
(* The cached variant (src/unnamed/part_000): the same store behind an     *)
(* intensity cache.  A cache entry is [key, value, timestamp]; the         *)
(* sequence keeps the insertion order of the JavaScript Map.               *)
(***************************************************************************)
\* Bounds of the cached model: the points of its calls, the latest clock
\* reading, the largest configured maxSize and ttl.
MaxCachedPoint == 1
MaxNow == 2
MaxCacheSize == 2
MaxTtl == 1

CachedPointArgs == {Num(n) : n \in 0..MaxCachedPoint}

\* this.intensityCache.clear()
clearCache == << >>

\* Mutant of cacheGet: the key is not compared, the oldest entry answers.
cacheGetFirst(cache, key) ==
    {cache[i] : i \in {j \in 1..Len(cache) : j = 1}}

\* this.intensityCache.get(key): the entries under `key` (none or one).
cacheGet(cache, key) ==
    {cache[i] : i \in {j \in 1..Len(cache) : cache[j].key = key}}

\* this.intensityCache.set(key, entry): an existing key keeps its place.
cacheSet(cache, entry) ==
    IF \E i \in 1..Len(cache) : cache[i].key = entry.key
    THEN [i \in 1..Len(cache) |->
             IF cache[i].key = entry.key THEN entry ELSE cache[i]]
    ELSE Append(cache, entry)

\* The first loop of updateCache: the expired entries are deleted.
removeExpired(cache, ttl, t) ==
    SelectSeq(cache, LAMBDA e : ~(t - e.timestamp > ttl))

\* Mutant of evictOldest: the size check is missing.
evictNothing(cache, maxSize) == cache

\* Mutant of evictOldest: the last key is deleted from a full cache.
evictNewest(cache, maxSize) ==
    IF Len(cache) >= maxSize /\ Len(cache) > 0
    THEN SubSeq(cache, 1, Len(cache) - 1)
    ELSE cache

\* The size check of updateCache: the first key is deleted from a full cache.
evictOldest(cache, maxSize) ==
    IF Len(cache) >= maxSize /\ Len(cache) > 0 THEN Tail(cache) ELSE cache

\* updateCache(point, intensity) when Date.now() reads t.
updateCache(cache, config, t, point, intensity) ==
    cacheSet(evictOldest(removeExpired(cache, config.ttl, t), config.maxSize),
             [key |-> point, value |-> intensity, timestamp |-> t])

\* Mutant of cacheAfterValidation: clearCache() is never called.
cacheKept(cache, result) == cache

\* Mutant of cacheAfterValidation: clearCache() is called before validation.
cacheClearedFirst(cache, result) == clearCache

\* The cache an add or a set leaves: clearCache() follows the validation, so
\* a throw leaves the cache as it is.
cacheAfterValidation(cache, result) ==
    IF result = "ok" THEN clearCache ELSE cache

\* Mutant of fresh: the age of the entry is not looked at.
alwaysFresh(entry, t, ttl) == TRUE

\* Date.now() - cached.timestamp <= this.cacheConfig.ttl, when Date.now()
\* reads t.
fresh(entry, t, ttl) == t - entry.timestamp <= ttl

\* The record of a getIntensityAt: one made right after a recorded
\* getIntensityAt that was answered from the cache keeps that call's time.
Query(time, result, value, hit) ==
    LET call == [Call("getIntensityAt", time, time, Num(0), result, value)
                     EXCEPT !.hit = hit]
    IN  IF last.op = "getIntensityAt" /\ last.hit
        THEN [call EXCEPT !.follow = "afterHit", !.earlier = last.from]
        ELSE call

\* time + 1, the `to` that getIntensityAt passes to validateTimeRange.
plusOne(time) ==
    IF time.type = "number" /\ time.fin THEN Num(time.val + 1) ELSE time

\* The loop of set in the cached variant: no end point is added after a
\* nonzero last segment.
RECURSIVE cachedSetChanges(_, _, _)
cachedSetChanges(changes, newSegments, i) ==
    IF i > Len(newSegments) THEN changes
    ELSE LET start == newSegments[i][1]
             intensity == newSegments[i][2]
             c1 == accumulate(changes, start, intensity)
             c2 == IF i < Len(newSegments)
                   THEN accumulate(c1, newSegments[i + 1][1], 0 - intensity)
                   ELSE c1
         IN  cachedSetChanges(c2, newSegments, i + 1)

cachedSetSegments(segs, from, to, amount) ==
    applyChanges(
        cachedSetChanges(EmptyMap, setNewSegments(segs, from, to, amount), 1))

InitCached ==
    /\ segments = << >>
    /\ intensityCache = << >>
    /\ cacheConfig \in [maxSize : 1..MaxCacheSize, ttl : 0..MaxTtl]
    /\ now = 0
    /\ other = << >>
    /\ prev = << >>
    /\ prevCache = << >>
    /\ last = NoCall

\* add(from, to, amount) of the cached variant.
cachedAdd(from, to, amount) ==
    LET result == validate(from, to, amount)
    IN  /\ intensityCache' = cacheAfterValidation(intensityCache, result)
        /\ IF result = "ok"
           THEN /\ segments' = addSegments(segments, from.val, to.val, amount.val)
                /\ InBounds(segments')
           ELSE segments' = segments
        /\ prev' = segments
        /\ prevCache' = intensityCache
        /\ last' = Mutation("add", from, to, amount, result)
        /\ UNCHANGED <<cacheConfig, now, other>>

\* set(from, to, amount) of the cached variant.
cachedSet(from, to, amount) ==
    LET result == validate(from, to, amount)
    IN  /\ intensityCache' = cacheAfterValidation(intensityCache, result)
        /\ IF result = "ok"
           THEN /\ segments' =
                       cachedSetSegments(segments, from.val, to.val, amount.val)
                /\ InBounds(segments')
           ELSE segments' = segments
        /\ prev' = segments
        /\ prevCache' = intensityCache
        /\ last' = Mutation("set", from, to, amount, result)
        /\ UNCHANGED <<cacheConfig, now, other>>

\* getIntensityAt(time) of the cached variant.  Date.now() is read once for
\* the cache check and once more in updateCache, `elapsed` later.
cachedGetIntensityAt(time, elapsed) ==
    LET result == validateTimeRange(time, plusOne(time))
        cached == cacheGet(intensityCache, time.val)
        hit == \E e \in cached : fresh(e, now, cacheConfig.ttl)
        intensity == lookupIntensity(segments, time.val)
    IN  /\ IF result # "ok"
           THEN /\ last' = Query(time, result, 0, FALSE)
                /\ UNCHANGED <<intensityCache, now>>
           ELSE IF hit
           THEN /\ last' = Query(time, "ok", (CHOOSE e \in cached : TRUE).value,
                                 TRUE)
                /\ UNCHANGED <<intensityCache, now>>
           ELSE /\ last' = Query(time, "ok", intensity, FALSE)
                /\ intensityCache' =
                       updateCache(intensityCache, cacheConfig, now + elapsed,
                                   time.val, intensity)
                /\ now' = now + elapsed
        /\ prev' = segments
        /\ prevCache' = intensityCache
        /\ UNCHANGED <<segments, cacheConfig, other>>

\* Time passes between two calls.
tick ==
    /\ now' = now + 1
    /\ UNCHANGED <<segments, intensityCache, cacheConfig, other, prev,
                   prevCache, last>>

NextCached ==
    \/ /\ last = NoCall
       /\ \E from \in CachedPointArgs \cup BadArgs,
             to \in CachedPointArgs \cup BadArgs,
             amount \in PositiveAmountArgs \cup BadArgs :
              cachedAdd(from, to, amount)
    \/ /\ last = NoCall
       /\ \E from \in CachedPointArgs \cup BadArgs,
             to \in CachedPointArgs \cup BadArgs,
             amount \in PositiveAmountArgs \cup BadArgs :
              cachedSet(from, to, amount)
    \/ /\ last = NoCall
       /\ \E time \in CachedPointArgs \cup BadArgs, elapsed \in 0..1 :
              /\ now + elapsed <= MaxNow
              /\ cachedGetIntensityAt(time, elapsed)
    \/ /\ last = NoCall
       /\ now < MaxNow
       /\ tick
    \/ Forget

SpecCached == InitCached /\ [][NextCached]_vars

(***************************************************************************)
(* Two instances, each built from an empty store by its own sequence of    *)
(* calls: `segments` by add and set as above, `other` by the calls below.  *)
(***************************************************************************)

\* add(from, to, amount) on the second instance.
otherAdd(from, to, amount) ==
    /\ validate(from, to, amount) = "ok"
    /\ other' = addSegments(other, from.val, to.val, amount.val)
    /\ InBounds(other')
    /\ UNCHANGED <<segments, prev, last, cacheVars>>

\* set(from, to, amount) on the second instance.
otherSet(from, to, amount) ==
    /\ validate(from, to, amount) = "ok"
    /\ other' = setSegments(other, from.val, to.val, amount.val)
    /\ InBounds(other')
    /\ UNCHANGED <<segments, prev, last, cacheVars>>

NextPair ==
    \/ /\ last = NoCall
       /\ \E from \in PointArgs, to \in PointArgs, amount \in PositiveAmountArgs :
              /\ validate(from, to, amount) = "ok"
              /\ add(from, to, amount)
    \/ /\ last = NoCall
       /\ \E from \in PointArgs, to \in PointArgs, amount \in PositiveAmountArgs :
              /\ validate(from, to, amount) = "ok"
              /\ set(from, to, amount)
    \/ \E from \in PointArgs, to \in PointArgs, amount \in PositiveAmountArgs :
           otherAdd(from, to, amount)
    \/ \E from \in PointArgs, to \in PointArgs, amount \in PositiveAmountArgs :
           otherSet(from, to, amount)
    \/ Forget

SpecPair == Init /\ [][NextPair]_vars

(***************************************************************************)
(* The claims, checked under Spec.                                         *)
(***************************************************************************)
Accepted(op) == last.op = op /\ last.result = "ok" /\ last.follow = ""

C3_NoAdjacentDuplicates ==
    \A i \in 1..(Len(segments) - 1) : segments[i][2] # segments[i + 1][2]

\* C4: add(a, b, x) followed by add(a, b, -x) restores the segment list the
\* store had before the two calls.
C4_AddInverseRestores ==
    (last.op = "add" /\ last.follow = "inverse") => segments = prev

\* C6: the points of the stored segments are strictly increasing.
C6_StrictlyIncreasing ==
    \A i \in 1..(Len(segments) - 1) : segments[i][1] < segments[i + 1][1]

\* A store of at least three segments left by an add or a set that put a new
\* point between two existing ones.
C6_Witness ==
    /\ last.op \in {"add", "set"} /\ last.result = "ok"
    /\ Len(segments) >= 3
    /\ \E i \in 1..(Len(prev) - 1) :
           \/ prev[i][1] < last.from.val /\ last.from.val < prev[i + 1][1]
           \/ prev[i][1] < last.to.val /\ last.to.val < prev[i + 1][1]

\* C7: the first stored segment has a nonzero value and the last two stored
\* segments are never both zero.
C7_NoLeadingOneTrailingZero ==
    /\ Len(segments) >= 1 => segments[1][2] # 0
    /\ Len(segments) >= 2 =>
           ~(segments[Len(segments)][2] = 0 /\ segments[Len(segments) - 1][2] = 0)

\* A call that turned the head and the tail of the function to zero: the new
\* store starts after the old one did and ends before it did.
C7_Witness ==
    /\ last.op \in {"add", "set"} /\ last.result = "ok"
    /\ Len(segments) >= 2 /\ Len(prev) >= 2
    /\ segments[1][1] > prev[1][1]
    /\ segments[Len(segments)][1] < prev[Len(prev)][1]
    /\ segments[Len(segments)][2] = 0

AtOrBefore(segs, x) == {i \in 1..Len(segs) : segs[i][1] <= x}

\* C8: on every store with strictly increasing points and for every finite x,
\* getIntensityAt(x) is the value of the last segment whose point is <= x,
\* and 0 when there is none; binarySearch(x) is that segment's index, -1 when
\* there is none.
C8_LookupLastAtOrBefore ==
    /\ (last.op = "getIntensityAt" /\ last.result = "ok") =>
           last.value =
               IF AtOrBefore(segments, last.from.val) = {} THEN 0
               ELSE segments[Max(AtOrBefore(segments, last.from.val))][2]
    /\ last.op = "binarySearch" =>
           last.value =
               IF AtOrBefore(segments, last.from.val) = {} THEN 0 - 1
               ELSE Max(AtOrBefore(segments, last.from.val)) - 1

\* A lookup at a stored breakpoint that is neither the first nor the last of
\* a store of four segments, whose neighbours carry other values.
C8_Witness ==
    /\ last.op = "getIntensityAt" /\ last.result = "ok"
    /\ Len(segments) = 4
    /\ \E i \in 2..3 :
           /\ segments[i][1] = last.from.val
           /\ segments[i][2] = last.value
           /\ segments[i - 1][2] # last.value
           /\ segments[i + 1][2] # last.value

(***************************************************************************)
(* The claim checked under SpecPair.                                       *)
(***************************************************************************)
\* C5: two sequences of add/set calls from an empty instance whose resulting
\* functions agree (getIntensityAt returns the same value at every x) leave
\* the identical segment list.
C5_CanonicalForm ==
    (\A x \in QueryTimes :
         getIntensityAt(segments, x) = getIntensityAt(other, x))
        => segments = other

(***************************************************************************)
(* The claim checked under SpecCached.                                     *)
(***************************************************************************)
\* C10: an add or a set with from >= to, with a non-finite from, to or
\* amount, or with an argument that is not a number throws and leaves the
\* segment store and the intensity cache as they were before the call.
C10_RejectedCallChangesNothing ==
    (last.op \in {"add", "set"} /\ last.invalid) =>
        /\ last.result \in {"TypeError", "RangeError"}
        /\ segments = prev
        /\ intensityCache = prevCache

\* A rejected call on an instance whose store and cache are not empty.
C10_Witness ==
    /\ last.op \in {"add", "set"} /\ last.invalid
    /\ last.result \in {"TypeError", "RangeError"}
    /\ Len(segments) >= 2
    /\ Len(intensityCache) >= 1

(***************************************************************************)
(* The example sequences of src/unnamed/part_003 and the literal traces of *)
(* src/tests/IntensitySegments.test.ts, observed through toString().       *)
(***************************************************************************)
\* JSON.stringify of an integer-valued number: its decimal digits, with a
\* leading minus sign when it is negative.
numberToString(n) == ToString(n)

\* JSON.stringify of one Segment: "[point,intensity]".
segmentToString(segment) ==
    "[" \o numberToString(segment[1]) \o "," \o numberToString(segment[2]) \o "]"

\* The elements of a JSON array from the i-th on, separated by commas.
RECURSIVE joinSegments(_, _)
joinSegments(segs, i) ==
    IF i > Len(segs) THEN ""
    ELSE (IF i > 1 THEN "," ELSE "") \o segmentToString(segs[i])
         \o joinSegments(segs, i + 1)

\* toString(): JSON.stringify(this.segments)
toString(segs) == "[" \o joinSegments(segs, 1) \o "]"

\* The largest intensity, in absolute value, of the stores the traces build.
MaxTraceIntensity == 3

TraceBounds(segs) ==
    \A i \in 1..Len(segs) :
        segs[i][2] >= 0 - MaxTraceIntensity /\ segs[i][2] <= MaxTraceIntensity

\* The calls of the example sequences and of the add() tests.
TraceAdds ==
    {<<10, 30, 1>>, <<20, 40, 1>>, <<10, 40, 0 - 2>>, <<10, 40, 0 - 1>>,
     <<10, 40, 1>>}

\* The calls of the set() tests and of the segment optimization tests.
TraceSets ==
    {<<20, 30, 3>>, <<10, 30, 2>>, <<20, 40, 3>>,
     <<10, 20, 1>>, <<20, 30, 0>>, <<30, 40, 1>>, <<40, 50, 0>>,
     <<0, 10, 0>>, <<10, 20, 0>>, <<20, 30, 1>>, <<30, 40, 0>>}

\* add(from, to, amount) with the arguments of a trace.
traceAdd(from, to, amount) ==
    LET result == validate(Num(from), Num(to), Num(amount))
    IN  /\ result = "ok"
        /\ segments' = addSegments(segments, from, to, amount)
        /\ TraceBounds(segments')
        /\ prev' = segments
        /\ last' = Mutation("add", Num(from), Num(to), Num(amount), result)
        /\ UNCHANGED <<other, cacheVars>>

\* set(from, to, amount) with the arguments of a trace.
traceSet(from, to, amount) ==
    LET result == validate(Num(from), Num(to), Num(amount))
    IN  /\ result = "ok"
        /\ segments' = setSegments(segments, from, to, amount)
        /\ TraceBounds(segments')
        /\ prev' = segments
        /\ last' = Mutation("set", Num(from), Num(to), Num(amount), result)
        /\ UNCHANGED <<other, cacheVars>>

NextTrace ==
    \/ /\ last = NoCall
       /\ \E c \in TraceAdds : traceAdd(c[1], c[2], c[3])
    \/ /\ last = NoCall
       /\ \E c \in TraceSets : traceSet(c[1], c[2], c[3])
    \/ Forget

SpecTrace == Init /\ [][NextTrace]_vars

\* The recorded call is the accepted op(from, to, amount), made on a store
\* that serialized to `before`.
Step(before, op, from, to, amount) ==
    /\ Accepted(op)
    /\ last.from = Num(from) /\ last.to = Num(to) /\ last.amount = Num(amount)
    /\ toString(prev) = before

\* C11: a new instance serializes to "[]" and each add of the two example
\* sequences turns the serialization before it into the one after it:
\* "[]" -add(10,30,1)-> "[[10,1],[30,0]]" -add(20,40,1)->
\* "[[10,1],[20,2],[30,1],[40,0]]" -add(10,40,-2)->
\* "[[10,-1],[20,0],[30,-1],[40,0]]"; and from the second of these
\* -add(10,40,-1)-> "[[20,1],[30,0]]" -add(10,40,-1)->
\* "[[10,-1],[20,0],[30,-1],[40,0]]".
C11_AddTraces ==
    /\ (segments = << >>) => toString(segments) = "[]"
    /\ Step("[]", "add", 10, 30, 1) => toString(segments) = "[[10,1],[30,0]]"
    /\ Step("[[10,1],[30,0]]", "add", 20, 40, 1)
           => toString(segments) = "[[10,1],[20,2],[30,1],[40,0]]"
    /\ Step("[[10,1],[20,2],[30,1],[40,0]]", "add", 10, 40, 0 - 2)
           => toString(segments) = "[[10,-1],[20,0],[30,-1],[40,0]]"
    /\ Step("[[10,1],[20,2],[30,1],[40,0]]", "add", 10, 40, 0 - 1)
           => toString(segments) = "[[20,1],[30,0]]"
    /\ Step("[[20,1],[30,0]]", "add", 10, 40, 0 - 1)
           => toString(segments) = "[[10,-1],[20,0],[30,-1],[40,0]]"

\* The end of the first example sequence is reached.
C11_Witness ==
    /\ Step("[[10,1],[20,2],[30,1],[40,0]]", "add", 10, 40, 0 - 2)
    /\ toString(segments) = "[[10,-1],[20,0],[30,-1],[40,0]]"

\* The end of the second example sequence is reached.
C11_WitnessSecond ==
    /\ Step("[[20,1],[30,0]]", "add", 10, 40, 0 - 1)
    /\ toString(segments) = "[[10,-1],[20,0],[30,-1],[40,0]]"

\* C12: each set of the four literal traces turns the serialization before
\* it into the one after it.  "[]" -add(10,40,1)-> "[[10,1],[40,0]]"
\* -set(20,30,3)-> "[[10,1],[20,3],[30,1],[40,0]]";  "[]" -set(10,30,2)->
\* "[[10,2],[30,0]]" -set(20,40,3)-> "[[10,2],[20,3],[40,0]]";  "[]"
\* -set(10,20,1)-> "[[10,1],[20,0]]" -set(20,30,0)-> "[[10,1],[20,0]]"
\* -set(30,40,1)-> "[[10,1],[20,0],[30,1],[40,0]]" -set(40,50,0)-> the same
\* (the zero segment between nonzero segments is kept);  "[]" -set(0,10,0)->
\* "[]" -set(10,20,0)-> "[]" -set(20,30,1)-> "[[20,1],[30,0]]"
\* -set(30,40,0)-> the same (the leading zero segments are dropped).
C12_SetTraces ==
    /\ Step("[]", "add", 10, 40, 1) => toString(segments) = "[[10,1],[40,0]]"
    /\ Step("[[10,1],[40,0]]", "set", 20, 30, 3)
           => toString(segments) = "[[10,1],[20,3],[30,1],[40,0]]"
    /\ Step("[]", "set", 10, 30, 2) => toString(segments) = "[[10,2],[30,0]]"
    /\ Step("[[10,2],[30,0]]", "set", 20, 40, 3)
           => toString(segments) = "[[10,2],[20,3],[40,0]]"
    /\ Step("[]", "set", 10, 20, 1) => toString(segments) = "[[10,1],[20,0]]"
    /\ Step("[[10,1],[20,0]]", "set", 20, 30, 0)
           => toString(segments) = "[[10,1],[20,0]]"
    /\ Step("[[10,1],[20,0]]", "set", 30, 40, 1)
           => toString(segments) = "[[10,1],[20,0],[30,1],[40,0]]"
    /\ Step("[[10,1],[20,0],[30,1],[40,0]]", "set", 40, 50, 0)
           => toString(segments) = "[[10,1],[20,0],[30,1],[40,0]]"
    /\ Step("[]", "set", 0, 10, 0) => toString(segments) = "[]"
    /\ Step("[]", "set", 10, 20, 0) => toString(segments) = "[]"
    /\ Step("[]", "set", 20, 30, 1) => toString(segments) = "[[20,1],[30,0]]"
    /\ Step("[[20,1],[30,0]]", "set", 30, 40, 0)
           => toString(segments) = "[[20,1],[30,0]]"

\* The end of the third trace is reached: the zero segment at 20 is kept.
C12_Witness ==
    /\ Step("[[10,1],[20,0],[30,1],[40,0]]", "set", 40, 50, 0)
    /\ toString(segments) = "[[10,1],[20,0],[30,1],[40,0]]"

\* The ends of the first, second and fourth traces are reached.
C12_WitnessOverride ==
    /\ Step("[[10,1],[40,0]]", "set", 20, 30, 3)
    /\ toString(segments) = "[[10,1],[20,3],[30,1],[40,0]]"
C12_WitnessConsecutive ==
    /\ Step("[[10,2],[30,0]]", "set", 20, 40, 3)
    /\ toString(segments) = "[[10,2],[20,3],[40,0]]"
C12_WitnessLeadingZeros ==
    /\ Step("[[20,1],[30,0]]", "set", 30, 40, 0)
    /\ toString(segments) = "[[20,1],[30,0]]"

(***************************************************************************)
(* getSegmentAt of the cached variant, on the stores its add and set       *)
(* build.  The calls that change the store take even points, so that the   *)
(* queries also fall strictly between two breakpoints.                     *)
(***************************************************************************)
SegmentPointArgs == {Num(2 * n) : n \in Points}
SegmentQueryTimes == (0 - 1)..(2 * MaxPoint + 1)

\* What getSegmentAt(time) returns once `time` has passed validation.
getSegmentAt(segs, time) ==
    IF Len(segs) = 0 THEN NoSegment
    ELSE LET index == binarySearch(segs, time)
         IN  IF index < 0 THEN NoSegment
             ELSE LET start == segs[index + 1][1]
                      intensity == segs[index + 1][2]
                      end == IF index < Len(segs) - 1
                             THEN Num(segs[index + 2][1])
                             ELSE Infinity
                  IN  IF intensity = 0 /\ time > start THEN NoSegment
                      ELSE SegmentRange(start, end, intensity)

\* getSegmentAt(time)
getSegmentAtCall(time) ==
    LET result == validateTimeRange(time, plusOne(time))
    IN  /\ last' = [Call("getSegmentAt", time, time, Num(0), result, 0) EXCEPT
                        !.segment = IF result = "ok"
                                    THEN getSegmentAt(segments, time.val)
                                    ELSE NoSegment]
        /\ prev' = segments
        /\ prevCache' = intensityCache
        /\ UNCHANGED <<segments, intensityCache, cacheConfig, now, other>>

NextSegmentAt ==
    \/ /\ last = NoCall
       /\ \E from \in SegmentPointArgs, to \in SegmentPointArgs,
             amount \in AmountArgs :
              /\ validate(from, to, amount) = "ok"
              /\ cachedAdd(from, to, amount)
    \/ /\ last = NoCall
       /\ \E from \in SegmentPointArgs, to \in SegmentPointArgs,
             amount \in AmountArgs :
              /\ validate(from, to, amount) = "ok"
              /\ cachedSet(from, to, amount)
    \/ /\ last = NoCall
       /\ \E time \in {Num(t) : t \in SegmentQueryTimes} \cup BadArgs :
              getSegmentAtCall(time)
    \/ Forget

SpecSegmentAt == InitCached /\ [][NextSegmentAt]_vars

\* The store ends in a zero-valued segment and x is at or after its point.
AtOrAfterTrailingZero(segs, x) ==
    /\ Len(segs) > 0
    /\ segs[Len(segs)][2] = 0
    /\ x >= segs[Len(segs)][1]

\* The recorded call is getSegmentAt(x) with a finite number x.
SegmentQueried == last.op = "getSegmentAt" /\ last.result = "ok"

\* C13: for x at or after the first breakpoint and before the trailing zero
\* breakpoint, getSegmentAt(x) returns the segment covering x: start is the
\* last breakpoint <= x, end the next breakpoint, start <= x < end, and
\* intensity is getIntensityAt(x).
C13_SegmentCoversPoint ==
    LET x == last.from.val
        i == Max(AtOrBefore(segments, x))
    IN  (/\ SegmentQueried
         /\ Len(segments) > 0
         /\ x >= segments[1][1]
         /\ ~AtOrAfterTrailingZero(segments, x))
        => /\ last.segment.found
           /\ last.segment.start = segments[i][1]
           /\ last.segment.start <= x
           /\ i < Len(segments)
           /\ last.segment.end = Num(segments[i + 1][1])
           /\ x < segments[i + 1][1]
           /\ last.segment.intensity = lookupIntensity(segments, x)

\* C14: getSegmentAt(x) returns null when the store is empty, when x precedes
\* the first breakpoint, and when x is at or after a trailing zero
\* breakpoint.
C14_NullOutsideSegments ==
    LET x == last.from.val
    IN  (/\ SegmentQueried
         /\ \/ Len(segments) = 0
            \/ x < segments[1][1]
            \/ AtOrAfterTrailingZero(segments, x))
        => ~last.segment.found

(***************************************************************************)
(* The intensity cache under accepted calls: add and set on the points of  *)
(* the cached model, getIntensityAt at the times 0..MaxCacheKey, and the   *)
(* passage of time.                                                        *)
(***************************************************************************)
MaxCacheKey == 2

CacheKeyArgs == {Num(t) : t \in 0..MaxCacheKey}

\* The recorded call is a getIntensityAt that was answered from the cache.
AnsweredFromCache ==
    last.op = "getIntensityAt" /\ last.result = "ok" /\ last.hit

NextCache ==
    \/ /\ last = NoCall
       /\ \E from \in CachedPointArgs, to \in CachedPointArgs,
             amount \in PositiveAmountArgs :
              /\ validate(from, to, amount) = "ok"
              /\ cachedAdd(from, to, amount)
    \/ /\ last = NoCall
       /\ \E from \in CachedPointArgs, to \in CachedPointArgs,
             amount \in PositiveAmountArgs :
              /\ validate(from, to, amount) = "ok"
              /\ cachedSet(from, to, amount)
    \/ /\ last = NoCall
       /\ \E time \in CacheKeyArgs, elapsed \in 0..1 :
              /\ now + elapsed <= MaxNow
              /\ cachedGetIntensityAt(time, elapsed)
    \/ /\ AnsweredFromCache /\ last.follow = ""
       /\ \E time \in CacheKeyArgs, elapsed \in 0..1 :
              /\ now + elapsed <= MaxNow
              /\ cachedGetIntensityAt(time, elapsed)
    \/ /\ last = NoCall
       /\ now < MaxNow
       /\ tick
    \/ Forget

SpecCache == InitCached /\ [][NextCache]_vars

\* The recorded call is a getIntensityAt that returned.
Queried == last.op = "getIntensityAt" /\ last.result = "ok"

\* C15: whatever the calls before it, the time that passed and the cache
\* configuration, getIntensityAt(t) returns what an uncached lookup on the
\* current store returns.
C15_CacheNeverChangesValue ==
    Queried => last.value = getIntensityAt(segments, last.from.val)

\* A nonzero value is answered from the cache of a store of two segments.
C15_Witness ==
    /\ AnsweredFromCache
    /\ last.value # 0
    /\ Len(segments) = 2

\* C16: every accepted add or set leaves the intensity cache empty, so the
\* cache never holds a value that differs from the current store's and no
\* getIntensityAt is answered with a value cached before the mutation.
C16_MutationEmptiesCache ==
    /\ (last.op \in {"add", "set"} /\ last.result = "ok")
           => intensityCache = << >>
    /\ \A i \in 1..Len(intensityCache) :
           intensityCache[i].value =
               lookupIntensity(segments, intensityCache[i].key)
    /\ AnsweredFromCache =>
           \E i \in 1..Len(intensityCache) :
               /\ intensityCache[i].key = last.from.val
               /\ intensityCache[i].value = last.value
               /\ last.value = lookupIntensity(segments, last.from.val)

\* An accepted add or set found two cached values of which one is no longer
\* the store's.
C16_Witness ==
    /\ last.op \in {"add", "set"} /\ last.result = "ok"
    /\ Len(prevCache) = 2
    /\ intensityCache = << >>
    /\ \E i \in 1..Len(prevCache) :
           prevCache[i].value # lookupIntensity(segments, prevCache[i].key)

\* The recorded call is a getIntensityAt that was not answered from the cache.
Missed == Queried /\ ~last.hit

\* Every entry the cache held before the recorded call was still within ttl
\* when updateCache read the clock.
NoneExpired ==
    \A i \in 1..Len(prevCache) : fresh(prevCache[i], now, cacheConfig.ttl)

\* C17: the intensity cache never holds more than maxSize entries.
C17_CacheSizeBounded == Len(intensityCache) <= cacheConfig.maxSize

\* A miss on a cache of maxSize = 2 unexpired entries leaves two entries.
C17_Witness ==
    /\ Missed
    /\ cacheConfig.maxSize = 2
    /\ Len(prevCache) = 2
    /\ NoneExpired
    /\ Len(intensityCache) = 2

\* The entries the cache held under the queried time before the recorded call.
EntriesBefore ==
    {prevCache[i] : i \in {j \in 1..Len(prevCache) :
                               prevCache[j].key = last.from.val}}

\* C18: getIntensityAt answers from the cache only with an entry whose age
\* (the clock minus its timestamp) is at most ttl; otherwise the value is
\* computed from the store and inserted with the timestamp of that moment.
C18_OnlyFreshEntriesServed ==
    /\ AnsweredFromCache =>
           \E e \in EntriesBefore :
               /\ now - e.timestamp <= cacheConfig.ttl
               /\ last.value = e.value
    /\ Missed =>
           /\ last.value = lookupIntensity(segments, last.from.val)
           /\ \E i \in 1..Len(intensityCache) :
                  intensityCache[i] = [key |-> last.from.val,
                                       value |-> last.value,
                                       timestamp |-> now]

\* An entry older than ttl was found under the queried time: the value was
\* recomputed and the entry replaced by one with a later timestamp.
C18_Witness ==
    /\ Missed
    /\ \E e \in EntriesBefore :
           /\ now - e.timestamp > cacheConfig.ttl
           /\ \E i \in 1..Len(intensityCache) :
                  /\ intensityCache[i].key = e.key
                  /\ intensityCache[i].timestamp > e.timestamp

\* The recorded getIntensityAt missed on a cache of maxSize entries, all of
\* them within ttl.
MissedOnFullCache ==
    /\ Missed
    /\ Len(prevCache) = cacheConfig.maxSize
    /\ NoneExpired

\* The entry the recorded getIntensityAt inserted.
InsertedEntry ==
    [key |-> last.from.val, value |-> last.value, timestamp |-> now]

\* C19: a miss on a cache of maxSize unexpired entries evicts exactly the
\* entry inserted earliest and appends the new one; an answer from the cache
\* leaves the entries and their order as they are, so it does not change
\* which entry is evicted next.
C19_InsertionOrderEviction ==
    /\ MissedOnFullCache =>
           intensityCache = Append(Tail(prevCache), InsertedEntry)
    /\ AnsweredFromCache => intensityCache = prevCache

\* The earliest inserted of two entries is answered from the cache and the
\* miss right after it evicts that very entry.
C19_Witness ==
    /\ MissedOnFullCache
    /\ last.follow = "afterHit"
    /\ Len(prevCache) = 2
    /\ last.earlier.val = prevCache[1].key
    /\ intensityCache = <<prevCache[2], InsertedEntry>>

\* C20: the cache is LRU: on a miss on a full cache of at least two unexpired
\* entries, the entry that was answered from the cache by the call just
\* before is not the one evicted.
C20_LeastRecentlyUsedEvicted ==
    (/\ MissedOnFullCache
     /\ last.follow = "afterHit"
     /\ Len(prevCache) >= 2)
    => \E i \in 1..Len(intensityCache) :
           intensityCache[i].key = last.earlier.val

(***************************************************************************)
(* The remaining queries of src/src/IntensitySegments.ts.                  *)
(***************************************************************************)
\* Mutant of getSegmentsInRange: the filter tests `point < to`.
getSegmentsInRangeExclusive(segs, from, to) ==
    SelectSeq(segs, LAMBDA s : s[1] >= from /\ s[1] < to)

\* this.segments.filter(([point]) => point >= from && point <= to)
getSegmentsInRange(segs, from, to) ==
    SelectSeq(segs, LAMBDA s : s[1] >= from /\ s[1] <= to)

\* JavaScript's Math.abs on an integer.
abs(n) == IF n < 0 THEN 0 - n ELSE n

\* The reduce of getTotalIntensityChange from the element `index` (0-based)
\* on, with the sum so far.
RECURSIVE totalChangeFrom(_, _, _)
totalChangeFrom(arr, index, sum) ==
    IF index >= Len(arr) THEN sum
    ELSE totalChangeFrom(arr, index + 1,
             IF index < Len(arr) - 1
             THEN sum + abs(arr[index + 2][2] - arr[index + 1][2])
             ELSE sum)

\* Mutant of getTotalIntensityChange: the reduce starts from the absolute
\* value of the first segment.
getTotalIntensityChangeWithRise(segs) ==
    totalChangeFrom(segs, 0, IF segs = << >> THEN 0 ELSE abs(segs[1][2]))

getTotalIntensityChange(segs) == totalChangeFrom(segs, 0, 0)

\* [...this.segments]: a new array of the same elements.
getSegments(segs) == [i \in 1..Len(segs) |-> segs[i]]

\* Mutant of getSegmentsInRangeCall: the segments are taken out of
\* this.segments (splice) instead of being selected (filter).
getSegmentsInRangeSplice(from, to) ==
    LET result == validateTimeRange(from, to)
        list == IF result = "ok"
                THEN SelectSeq(segments,
                               LAMBDA s : s[1] >= from.val /\ s[1] <= to.val)
                ELSE << >>
    IN  /\ last' = [Call("getSegmentsInRange", from, to, Num(0), result, 0)
                        EXCEPT !.list = list]
        /\ segments' = IF result = "ok"
                       THEN SelectSeq(segments,
                                LAMBDA s : ~(s[1] >= from.val /\ s[1] <= to.val))
                       ELSE segments
        /\ prev' = segments
        /\ prevCache' = intensityCache
        /\ UNCHANGED <<intensityCache, cacheConfig, now, other>>

\* getSegmentsInRange(from, to)
getSegmentsInRangeCall(from, to) ==
    LET result == validateTimeRange(from, to)
    IN  /\ last' = [Call("getSegmentsInRange", from, to, Num(0), result, 0)
                        EXCEPT !.list =
                            IF result = "ok"
                            THEN getSegmentsInRange(segments, from.val, to.val)
                            ELSE << >>]
        /\ prev' = segments
        /\ prevCache' = intensityCache
        /\ UNCHANGED <<segments, intensityCache, cacheConfig, now, other>>

\* getTotalIntensityChange(); one made right after a recorded clear() is
\* marked as such.
getTotalIntensityChangeCall ==
    /\ last' = [Call("getTotalIntensityChange", Num(0), Num(0), Num(0), "ok",
                     getTotalIntensityChange(segments))
                    EXCEPT !.follow = IF last.op = "clear" THEN "afterClear"
                                      ELSE ""]
    /\ prev' = segments
    /\ prevCache' = intensityCache
    /\ UNCHANGED <<segments, intensityCache, cacheConfig, now, other>>

\* getSegments()
getSegmentsCall ==
    /\ last' = [Call("getSegments", Num(0), Num(0), Num(0), "ok", 0)
                    EXCEPT !.list = getSegments(segments)]
    /\ prev' = segments
    /\ prevCache' = intensityCache
    /\ UNCHANGED <<segments, intensityCache, cacheConfig, now, other>>

\* toString()
toStringCall ==
    /\ last' = [Call("toString", Num(0), Num(0), Num(0), "ok", 0)
                    EXCEPT !.text = toString(segments)]
    /\ prev' = segments
    /\ prevCache' = intensityCache
    /\ UNCHANGED <<segments, intensityCache, cacheConfig, now, other>>

(***************************************************************************)
(* One instance of either version of the class, with every public method   *)
(* of that version: the uncached src/src/IntensitySegments.ts, which has   *)
(* no cacheConfig (maxSize 0 stands for it), or the cached                 *)
(* src/unnamed/part_000.                                                   *)
(***************************************************************************)
NoCacheConfig == [maxSize |-> 0, ttl |-> 0]
Uncached == cacheConfig = NoCacheConfig

InitUncached ==
    /\ segments = << >>
    /\ intensityCache = << >>
    /\ cacheConfig = NoCacheConfig
    /\ now = 0
    /\ other = << >>
    /\ prev = << >>
    /\ prevCache = << >>
    /\ last = NoCall

\* The cached instance is constructed with room for one entry that stays
\* fresh for one unit of time.
EitherCacheConfig == [maxSize |-> 1, ttl |-> 1]

InitEither ==
    \/ InitUncached
    \/ InitCached /\ cacheConfig = EitherCacheConfig

NextEither ==
    \/ /\ last = NoCall /\ Uncached
       /\ \E from \in CachedPointArgs \cup BadArgs,
             to \in CachedPointArgs \cup BadArgs,
             amount \in AmountArgs \cup BadArgs :
              add(from, to, amount)
    \/ /\ last = NoCall /\ Uncached
       /\ \E from \in CachedPointArgs \cup BadArgs,
             to \in CachedPointArgs \cup BadArgs,
             amount \in AmountArgs \cup BadArgs :
              set(from, to, amount)
    \/ /\ last = NoCall /\ Uncached
       /\ clear
    \/ /\ last = NoCall /\ Uncached
       /\ \E time \in CacheKeyArgs \cup BadArgs : getIntensityAtCall(time)
    \/ /\ last = NoCall /\ Uncached
       /\ \E from \in CacheKeyArgs \cup BadArgs,
             to \in CacheKeyArgs \cup BadArgs :
              getSegmentsInRangeCall(from, to)
    \/ /\ last = NoCall /\ Uncached
       /\ getTotalIntensityChangeCall
    \/ /\ last = NoCall /\ Uncached
       /\ getSegmentsCall
    \/ /\ last = NoCall
       /\ toStringCall
    \/ /\ last = NoCall /\ ~Uncached
       /\ \E from \in CachedPointArgs \cup BadArgs,
             to \in CachedPointArgs \cup BadArgs,
             amount \in AmountArgs \cup BadArgs :
              cachedAdd(from, to, amount)
    \/ /\ last = NoCall /\ ~Uncached
       /\ \E from \in CachedPointArgs \cup BadArgs,
             to \in CachedPointArgs \cup BadArgs,
             amount \in AmountArgs \cup BadArgs :
              cachedSet(from, to, amount)
    \/ /\ last = NoCall /\ ~Uncached
       /\ \E time \in CacheKeyArgs \cup BadArgs, elapsed \in 0..1 :
              /\ now + elapsed <= MaxNow
              /\ cachedGetIntensityAt(time, elapsed)
    \/ /\ last = NoCall /\ ~Uncached
       /\ \E time \in CacheKeyArgs \cup BadArgs : getSegmentAtCall(time)
    \/ /\ last = NoCall /\ ~Uncached
       /\ now < MaxNow
       /\ tick
    \/ Forget

SpecEither == InitEither /\ [][NextEither]_vars

\* What is wrong with the arguments of the recorded call.
LastCause ==
    IF last.op \in {"add", "set"} THEN last.cause
    ELSE IF last.op = "getSegmentsInRange"
    THEN RejectionCause(last.from, last.to, Num(0))
    ELSE IF last.op \in {"getIntensityAt", "getSegmentAt"}
    THEN RejectionCause(last.from, plusOne(last.from), Num(0))
    ELSE ""

\* C21: add, set, getIntensityAt, getSegmentAt and getSegmentsInRange reject
\* a non-finite number and from >= to with a RangeError, and an argument that
\* is not a number with a TypeError.
C21_RejectionKinds ==
    /\ LastCause = "range" => last.result = "RangeError"
    /\ LastCause = "type" => last.result = "TypeError"

(***************************************************************************)
(* A caller that keeps the array getSegments() or getSegmentsInRange()     *)
(* returned and writes to it.  The array is new; its elements are the very *)
(* pair objects of this.segments, until an add, a set or a clear replaces  *)
(* the store.                                                              *)
(***************************************************************************)
\* The caller holds the array the recorded call returned.
HoldsReturnedArray ==
    /\ last.op \in {"getSegments", "getSegmentsInRange"}
    /\ last.result = "ok"
    /\ last.follow = ""

\* The index in this.segments of the pair that is element i of the returned
\* array: the spread and filter copy the references, and points are distinct.
sharedPair(segs, list, i) ==
    CHOOSE j \in 1..Len(segs) : segs[j][1] = list[i][1]

\* result.pop(): the caller shortens the returned array.
modifyReturnedArray ==
    /\ HoldsReturnedArray
    /\ Len(last.list) > 0
    /\ last' = [last EXCEPT !.list = SubSeq(last.list, 1, Len(last.list) - 1),
                            !.follow = "arrayModified"]
    /\ UNCHANGED <<segments, other, prev, cacheVars>>

\* result[i][1] = intensity: the caller writes to a pair of the returned
\* array, which is a pair of this.segments.
modifyReturnedPair(i, intensity) ==
    /\ HoldsReturnedArray
    /\ i \in 1..Len(last.list)
    /\ last.list[i][2] # intensity
    /\ segments' = [segments EXCEPT
                        ![sharedPair(segments, last.list, i)][2] = intensity]
    /\ last' = [last EXCEPT !.list[i][2] = intensity,
                            !.follow = "pairModified"]
    /\ UNCHANGED <<other, prev, cacheVars>>

\* The points of the store stay within the model: on a store whose last
\* value a caller made nonzero, set adds a point after the last one.
PointsInBounds(segs) ==
    \A i \in 1..Len(segs) : segs[i][1] <= MaxPoint + 1

NextAlias ==
    \/ /\ last = NoCall
       /\ \E from \in PointArgs, to \in PointArgs, amount \in AmountArgs :
              /\ validate(from, to, amount) = "ok"
              /\ add(from, to, amount)
              /\ PointsInBounds(segments')
    \/ /\ last = NoCall
       /\ \E from \in PointArgs, to \in PointArgs, amount \in AmountArgs :
              /\ validate(from, to, amount) = "ok"
              /\ set(from, to, amount)
              /\ PointsInBounds(segments')
    \/ /\ last = NoCall
       /\ getSegmentsCall
    \/ /\ last = NoCall
       /\ \E from \in PointArgs, to \in PointArgs :
              getSegmentsInRangeCall(from, to)
    \/ modifyReturnedArray
    \/ \E i \in 1..(MaxPoint + 1), intensity \in Intensities :
           modifyReturnedPair(i, intensity)
    \/ Forget

SpecAlias == Init /\ [][NextAlias]_vars

\* C22: after the caller modified the array that getSegments() or
\* getSegmentsInRange() returned, or a pair in it, the instance returns from
\* toString() and from getIntensityAt() what it returned before.
C22_ResultsAreNotAliases ==
    last.follow \in {"arrayModified", "pairModified"} =>
        /\ toString(segments) = toString(prev)
        /\ \A x \in QueryTimes :
               getIntensityAt(segments, x) = getIntensityAt(prev, x)

(***************************************************************************)
(* add and set while a caller holds the array that getSegments() returned.  *)
(* The elements of that array are the pairs of the list add and set start   *)
(* from, so its content after the call is what the call left in those       *)
(* pairs.                                                                   *)
(***************************************************************************)

HoldsSegments ==
    /\ HoldsReturnedArray
    /\ last.op = "getSegments"

\* What add leaves in the pairs of the list it started from: the loop over
\* this.segments destructures each pair and assigns to none, and
\* applyChanges builds finalSegments out of new pairs.
pairsAfterAdd(segs, from, to, amount) == segs

\* A set that assigned the amount to the pairs it found in [from, to).
pairsOverwrittenBySet(segs, from, to, amount) ==
    [i \in 1..Len(segs) |->
        IF segs[i][1] >= from /\ segs[i][1] < to
        THEN <<segs[i][1], amount>>
        ELSE segs[i]]

\* What set leaves in the pairs of the list it started from: the pairs
\* outside the range are pushed onto newSegments, the others are only read.
pairsAfterSet(segs, from, to, amount) == segs

\* add(from, to, amount) by a caller who holds the result of getSegments()
addHolding(from, to, amount) ==
    LET result == validate(from, to, amount)
    IN  /\ HoldsSegments
        /\ IF result = "ok"
           THEN /\ segments' = addSegments(segments, from.val, to.val, amount.val)
                /\ InBounds(segments')
                /\ last' = [last EXCEPT
                       !.list = pairsAfterAdd(last.list, from.val, to.val,
                                              amount.val),
                       !.from = from, !.to = to, !.amount = amount,
                       !.follow = "add"]
           ELSE /\ segments' = segments
                /\ last' = [last EXCEPT !.result = result, !.follow = "add"]
        /\ UNCHANGED <<other, prev, cacheVars>>

\* set(from, to, amount) by a caller who holds the result of getSegments()
setHolding(from, to, amount) ==
    LET result == validate(from, to, amount)
    IN  /\ HoldsSegments
        /\ IF result = "ok"
           THEN /\ segments' = setSegments(segments, from.val, to.val, amount.val)
                /\ InBounds(segments')
                /\ last' = [last EXCEPT
                       !.list = pairsAfterSet(last.list, from.val, to.val,
                                              amount.val),
                       !.from = from, !.to = to, !.amount = amount,
                       !.follow = "set"]
           ELSE /\ segments' = segments
                /\ last' = [last EXCEPT !.result = result, !.follow = "set"]
        /\ UNCHANGED <<other, prev, cacheVars>>

\* Every add and set is made by a caller who called getSegments() first.
NextHold ==
    \/ /\ last = NoCall
       /\ getSegmentsCall
    \/ \E from \in PointArgs \cup BadArgs, to \in PointArgs,
          amount \in AmountArgs :
           addHolding(from, to, amount)
    \/ \E from \in PointArgs \cup BadArgs, to \in PointArgs,
          amount \in AmountArgs :
           setHolding(from, to, amount)
    \/ Forget

SpecHold == Init /\ [][NextHold]_vars

HeldThrough(op) ==
    /\ last.op = "getSegments"
    /\ last.follow = op

breakpoints(segs) == {segs[i][1] : i \in 1..Len(segs)}

\* The value recorded at breakpoint p of a store.
valueAt(segs, p) == segs[CHOOSE i \in 1..Len(segs) : segs[i][1] = p][2]

QueryOps ==
    {"getIntensityAt", "getSegmentAt", "getSegmentsInRange",
     "getTotalIntensityChange", "getSegments", "toString"}

\* C28: after getIntensityAt, getSegmentAt, getSegmentsInRange,
\* getTotalIntensityChange, getSegments or toString, returned or thrown, the
\* segment store is the one before the call; the intensity cache is the one
\* before the call unless the call was getIntensityAt.
C28_QueriesLeaveStore ==
    last.op \in QueryOps =>
        /\ segments = prev
        /\ last.op # "getIntensityAt" => intensityCache = prevCache

\* A getIntensityAt on a store that is not empty whose answer was put into
\* the cache.
C28_Witness ==
    /\ last.op = "getIntensityAt"
    /\ last.result = "ok"
    /\ intensityCache # prevCache
    /\ Len(segments) >= 2

(***************************************************************************)
(* getSegmentsInRange and getTotalIntensityChange on the stores that add,  *)
(* set and clear leave.                                                    *)
(***************************************************************************)
NextStoreQuery ==
    \/ /\ last = NoCall
       /\ \E from \in PointArgs, to \in PointArgs, amount \in AmountArgs :
              /\ validate(from, to, amount) = "ok"
              /\ add(from, to, amount)
    \/ /\ last = NoCall
       /\ \E from \in PointArgs, to \in PointArgs, amount \in AmountArgs :
              /\ validate(from, to, amount) = "ok"
              /\ set(from, to, amount)
    \/ /\ last = NoCall
       /\ clear
    \/ /\ last = NoCall
       /\ \E from \in {Num(t) : t \in QueryTimes} \cup BadArgs,
             to \in {Num(t) : t \in QueryTimes} \cup BadArgs :
              getSegmentsInRangeCall(from, to)
    \/ /\ last = NoCall \/ (last.op = "clear" /\ last.follow = "")
       /\ getTotalIntensityChangeCall
    \/ Forget

SpecStoreQuery == Init /\ [][NextStoreQuery]_vars

\* The recorded call is a getSegmentsInRange whose arguments are finite
\* numbers.
RangeQueried ==
    /\ last.op = "getSegmentsInRange"
    /\ last.from.type = "number" /\ last.from.fin
    /\ last.to.type = "number" /\ last.to.fin

\* C29: getSegmentsInRange(from, to) with from < to returns the stored
\* segments whose point p satisfies from <= p <= to, each once and in
\* ascending point order, and no segment that starts before from; with
\* from >= to it throws and returns nothing.
C29_RangeInclusiveBothEnds ==
    /\ RangeQueried /\ last.from.val < last.to.val =>
           /\ last.result = "ok"
           /\ {last.list[i] : i \in 1..Len(last.list)} =
                  {segments[i] : i \in
                      {j \in 1..Len(segments) :
                          /\ last.from.val <= segments[j][1]
                          /\ segments[j][1] <= last.to.val}}
           /\ \A i \in 1..(Len(last.list) - 1) :
                  last.list[i][1] < last.list[i + 1][1]
           /\ \A i \in 1..Len(last.list) : last.list[i][1] >= last.from.val
    /\ RangeQueried /\ last.from.val >= last.to.val =>
           /\ last.result # "ok"
           /\ last.list = << >>

\* A query whose `to` is a breakpoint and whose `from` lies inside a nonzero
\* segment that starts before it: the segment at `to` is returned, the one
\* covering `from` is not.
C29_Witness ==
    /\ RangeQueried
    /\ last.result = "ok"
    /\ Len(last.list) >= 2
    /\ last.list[Len(last.list)][1] = last.to.val
    /\ last.from.val \notin breakpoints(segments)
    /\ getIntensityAt(segments, last.from.val) # 0

\* The sum of the absolute differences between the first n segments' values,
\* each taken with its predecessor.
RECURSIVE stepSum(_, _)
stepSum(segs, n) ==
    IF n < 2 THEN 0
    ELSE stepSum(segs, n - 1) + abs(segs[n][2] - segs[n - 1][2])

\* C30: getTotalIntensityChange() returns the sum over the consecutive pairs
\* of stored segments of the absolute difference of their values, without
\* the rise from 0 to the first value; 0 on an empty store and after clear().
C30_TotalChangeBetweenSegments ==
    last.op = "getTotalIntensityChange" =>
        /\ last.value = stepSum(segments, Len(segments))
        /\ segments # << >> =>
               last.value # stepSum(segments, Len(segments))
                            + abs(segments[1][2])
        /\ segments = << >> => last.value = 0
        /\ last.follow = "afterClear" => last.value = 0

\* A store of at least four segments whose values rise and fall.
C30_Witness ==
    /\ last.op = "getTotalIntensityChange"
    /\ Len(segments) >= 4
    /\ \E i \in 1..(Len(segments) - 1) : segments[i + 1][2] > segments[i][2]
    /\ \E i \in 1..(Len(segments) - 1) : segments[i + 1][2] < segments[i][2]
    /\ last.value > abs(segments[1][2])

\* A getTotalIntensityChange() right after a clear().
C30_WitnessAfterClear ==
    /\ last.op = "getTotalIntensityChange"
    /\ last.follow = "afterClear"
    /\ last.value = 0

(***************************************************************************)
(* The set example of src/README.md.  Its initial state ends with a        *)
(* nonzero value, which no add or set leaves; a caller reaches it by       *)
(* writing to a pair of the array getSegments() returned.                  *)
(***************************************************************************)
\* The largest point of the stores around the example.
MaxReadmePoint == 21

\* Calls that build the stores around the example's initial state.
ReadmeAdds == {<<0, 10, 1>>, <<10, 20, 2>>, <<0, 20, 1>>, <<10, 20, 1>>}

\* The call of the example.
ReadmeSets == {<<5, 15, 3>>}

ReadmeBounds(segs) ==
    \A i \in 1..Len(segs) : segs[i][1] <= MaxReadmePoint

NextReadme ==
    \/ /\ last = NoCall
       /\ \E c \in ReadmeAdds : traceAdd(c[1], c[2], c[3])
       /\ ReadmeBounds(segments')
    \/ /\ last = NoCall
       /\ \E c \in ReadmeSets : traceSet(c[1], c[2], c[3])
       /\ ReadmeBounds(segments')
    \/ /\ last = NoCall
       /\ getSegmentsCall
    \/ \E i \in 1..3, intensity \in 0..2 : modifyReturnedPair(i, intensity)
    \/ Forget

SpecReadme == Init /\ [][NextReadme]_vars

\* C24: set(5, 15, 3) on a store holding [[0,1],[10,2],[20,1]] leaves
\* [[0,1],[5,3],[15,1],[20,0]].
C24_ReadmeSetExample ==
    Step("[[0,1],[10,2],[20,1]]", "set", 5, 15, 3) =>
        toString(segments) = "[[0,1],[5,3],[15,1],[20,0]]"

=============================================================================
